---- MODULE Spec2Model ----
(***************************************************************************)
(* Rendering-state core of ggez (src/graphics/mod.rs): the transform       *)
(* stack, the projection, the uploaded MVP matrix, the sampler cache and   *)
(* the clear / draw / present / screenshot frame operations.               *)
(*                                                                         *)
(* Matrix4 values are 4x4 integer matrices (tuples of rows).  Projection,  *)
(* stack and MVP are kept exactly, so composition order is observable.     *)
(***************************************************************************)
EXTENDS Integers, Sequences, FiniteSets, TLC

(* ----------------------------------------------------------------------- *)
(* Bounds                                                                  *)
(* ----------------------------------------------------------------------- *)

\* Largest depth of the transform stack the model explores.
MaxDepth == 3

\* Most commands the encoder holds between two flushes.
MaxQueue == 3

(* ----------------------------------------------------------------------- *)
(* Matrix4                                                                 *)
(* ----------------------------------------------------------------------- *)

Idx == 1..4

\* Matrix4::identity()
Identity ==
  << <<1, 0, 0, 0>>,
     <<0, 1, 0, 0>>,
     <<0, 0, 1, 0>>,
     <<0, 0, 0, 1>> >>

\* `a * b` on Matrix4
MatMul(a, b) ==
  [i \in Idx |-> [j \in Idx |->
      a[i][1] * b[1][j] + a[i][2] * b[2][j] + a[i][3] * b[3][j] + a[i][4] * b[4][j]]]

\* Rotation by a quarter turn about Z.
Rot90 ==
  << <<0, -1, 0, 0>>,
     <<1,  0, 0, 0>>,
     <<0,  0, 1, 0>>,
     <<0,  0, 0, 1>> >>

\* Mirror of the X axis.
FlipX ==
  << <<-1, 0, 0, 0>>,
     << 0, 1, 0, 0>>,
     << 0, 0, 1, 0>>,
     << 0, 0, 0, 1>> >>

\* The matrices callers hand to the transform functions.
Transforms == {Rot90, FlipX}

\* Option<Matrix4>::None
None == <<>>

\* Rect { x, y, w, h } values callers hand to set_screen_coordinates.
Rect(x, y, w, h) == [x |-> x, y |-> y, w |-> w, h |-> h]

Rects == {Rect(0, 0, 2, 2), Rect(0, 0, 2, -2)}

\* The screen rectangle the context is created with.
InitialRect == Rect(0, 0, 2, 2)

\* Integer division that is exact on the rectangles above.
Div(a, b) == IF b > 0 THEN (IF a >= 0 THEN a \div b ELSE -((-a) \div b))
             ELSE (IF a >= 0 THEN -(a \div (-b)) ELSE (-a) \div (-b))

\* Orthographic projection with left = x, right = x + w, top = y,
\* bottom = y + h, near = -1, far = 1.
Ortho(rect) ==
  << <<Div(2, rect.w), 0, 0, Div(-(2 * rect.x + rect.w), rect.w)>>,
     <<0, Div(-2, rect.h), 0, Div(2 * rect.y + rect.h, rect.h)>>,
     <<0, 0, -1, 0>>,
     <<0, 0, 0, 1>> >>

(* ----------------------------------------------------------------------- *)
(* Samplers                                                                *)
(* ----------------------------------------------------------------------- *)

\* texture::SamplerInfo::new(filter, wrap)
SamplerInfo(filter, wrap) == [filter |-> filter, wrap |-> wrap]

FilterMethods == {"Scale", "Bilinear"}

WrapModes == {"Tile", "Clamp"}

SamplerInfos == {SamplerInfo(f, w) : f \in FilterMethods, w \in WrapModes}

\* graphics::FilterMode
FilterModes == {"Linear", "Nearest"}

\* FilterMode -> gfx FilterMethod
FilterModeInto(mode) == IF mode = "Nearest" THEN "Scale" ELSE "Bilinear"

(* ----------------------------------------------------------------------- *)
(* Render targets, colours and commands                                    *)
(* ----------------------------------------------------------------------- *)

Screen == "screen"

Canvas == "canvas"

Targets == {Screen, Canvas}

\* get_dimensions() of each render target.
Width(target) == IF target = Screen THEN 4 ELSE 2

Height(target) == 1

Pixels(target) == 1..(Width(target) * Height(target))

\* Colours callers clear with, as sRGB RGBA in thousandths.
Colors == {"Red", "Gray"}

Rgba(color) == IF color = "Red" THEN <<1000, 0, 0, 1000>>
               ELSE <<502, 502, 502, 1000>>

\* The sRGB transfer function on the channel values that occur.
SrgbToLinear(v) == CASE v = 0 -> 0
                     [] v = 216 -> 38
                     [] v = 502 -> 216
                     [] v = 1000 -> 1000

\* Its inverse, as applied when a linear value is stored in an Srgb surface.
LinearToSrgb(v) == CASE v = 0 -> 0
                     [] v = 38 -> 216
                     [] v = 216 -> 502
                     [] v = 502 -> 737
                     [] v = 1000 -> 1000

\* types::LinearColor::from(Color): alpha is not converted.
ColorToLinear(c) == <<SrgbToLinear(c[1]), SrgbToLinear(c[2]), SrgbToLinear(c[3]), c[4]>>

\* The texel an Srgba8 surface keeps for a linear colour.
StoreSrgb(c) == <<LinearToSrgb(c[1]), LinearToSrgb(c[2]), LinearToSrgb(c[3]), c[4]>>

\* Drawables, the pixels each one covers and the colour it leaves there.
Drawables == {"A", "B"}

Footprint(d) == IF d = "A" THEN {1, 2} ELSE {2, 3}

White == <<1000, 1000, 1000, 1000>>

Black == <<0, 0, 0, 1000>>

Ink(d) == IF d = "A" THEN White ELSE Black

\* The texel of a target nothing was rendered to.
Blank == <<0, 0, 0, 0>>

ClearCommand(target, linear, by) ==
  [kind |-> "clear", target |-> target, color |-> linear,
   pixels |-> Pixels(target), by |-> by]

DrawCommand(target, d) ==
  [kind |-> "draw", target |-> target, color |-> ColorToLinear(Ink(d)),
   pixels |-> Footprint(d) \cap Pixels(target), by |-> d]

\* The device executing one command on its render target.
Execute(tex, cmd) ==
  [tex EXCEPT ![cmd.target] =
     [p \in Pixels(cmd.target) |->
        IF p \in cmd.pixels THEN StoreSrgb(cmd.color) ELSE @[p]]]

\* encoder.flush(device): the device executes the queue front to back.
RECURSIVE Flush(_, _)
Flush(tex, queue) ==
  IF queue = <<>> THEN tex
  ELSE Flush(Execute(tex, Head(queue)), Tail(queue))

NoSampler == SamplerInfo("none", "none")

\* No Image was returned.
NoImage == [pixels |-> <<>>, width |-> 0, height |-> 0, sampler_info |-> NoSampler]

\* One call of the current frame, for the frame history.
Call(f, arg, target) == [f |-> f, arg |-> arg, target |-> target]

(* ----------------------------------------------------------------------- *)
(* State                                                                   *)
(* ----------------------------------------------------------------------- *)

VARIABLES
  modelview_stack,   \* gfx_context.modelview_stack: Vec<Matrix4>
  projection,        \* gfx_context.projection
  screen_rect,       \* gfx_context.screen_rect
  globals,           \* mvp_matrix held by the Globals constant buffer
  pushed,            \* history: matrices pushed and not yet popped
  samplers,          \* gfx_context.samplers.samplers: SamplerInfo -> Sampler
  sampler_count,     \* samplers the factory has created
  default_sampler_info, \* gfx_context.default_sampler_info
  handed_out,        \* history: the samplers returned for each SamplerInfo
  hit,               \* history: the last lookup found its sampler cached
  data_out,          \* gfx_context.data.out: the active render target
  encoder,           \* gfx_context.encoder: commands queued, not yet submitted
  textures,          \* device memory: the pixels of every render target
  present_log,       \* the steps the last present() went through
  image,             \* the Image the last screenshot() returned
  frame,             \* history: the calls of the current plain frame
  backend_spec,      \* a GlBackendSpec value: major, minor, api
  returned,          \* what the last GlBackendSpec method returned
  window_mode,       \* context.conf.window_mode
  panicked,          \* the process was terminated by a panic
  op,                \* the graphics function called last
  result             \* what that call returned: "Unit", "Ok" or "Err"

transformVars == <<modelview_stack, projection, screen_rect, globals, pushed>>

samplerVars == <<samplers, sampler_count, default_sampler_info, handed_out, hit>>

frameVars == <<data_out, encoder, textures, present_log, image, frame>>

backendVars == <<backend_spec, returned>>

confVars == <<window_mode>>

vars == <<transformVars, samplerVars, frameVars, backendVars, confVars,
          panicked, op, result>>

\* `pushed` stops following the stack once the top is overwritten in place.
Untracked == [tracked |-> FALSE, mats |-> <<>>]

Tracked(mats) == [tracked |-> TRUE, mats |-> mats]

(* ----------------------------------------------------------------------- *)
(* GraphicsContext methods                                                 *)
(* ----------------------------------------------------------------------- *)

\* GraphicsContext::transform(): the top of the stack.
gfx_transform(stack) == stack[Len(stack)]

\* GraphicsContext::push_transform(t)
gfx_push_transform(stack, t) == Append(stack, t)

\* GraphicsContext::pop_transform(): the entries that remain.
gfx_pop_transform(stack) == SubSeq(stack, 1, Len(stack) - 1)

\* GraphicsContext::pop_transform() on a stack holding its last entry is a
\* fatal assertion.
gfx_pop_asserts(stack) == Len(stack) <= 1

\* GraphicsContext::set_transform(t): replaces the top.
gfx_set_transform(stack, t) == [stack EXCEPT ![Len(stack)] = t]

\* GraphicsContext::set_projection_rect(rect)
gfx_set_projection_rect(rect) == Ortho(rect)

\* GraphicsContext::calculate_transform_matrix(): projection * top.
calculate_transform_matrix(proj, stack) == MatMul(proj, gfx_transform(stack))

(* ----------------------------------------------------------------------- *)
(* Initial state                                                           *)
(* ----------------------------------------------------------------------- *)

InitTransform ==
  /\ modelview_stack = <<Identity>>
  /\ projection = Ortho(InitialRect)
  /\ screen_rect = InitialRect
  /\ globals = MatMul(Ortho(InitialRect), Identity)
  /\ pushed = Tracked(<<>>)

\* SamplerCache::new()
SamplerCache_new == <<>>

InitSampler ==
  /\ samplers = SamplerCache_new
  /\ sampler_count = 0
  /\ default_sampler_info = SamplerInfo("Bilinear", "Clamp")
  /\ handed_out = [info \in SamplerInfos |-> {}]
  /\ hit = FALSE

InitFrame ==
  /\ data_out = Screen
  /\ encoder = <<>>
  /\ textures = [t \in Targets |-> [p \in Pixels(t) |-> Blank]]
  /\ present_log = <<>>
  /\ image = NoImage
  /\ frame = <<>>

\* GlBackendSpec::default()
GlBackendSpec_default == [major |-> 3, minor |-> 2, api |-> "OpenGl"]

InitBackend ==
  /\ backend_spec = GlBackendSpec_default
  /\ returned = <<>>

\* The window mode a context is created with.
WindowMode_default ==
  [width |-> 800, height |-> 600, fullscreen_type |-> "Off",
   resizable |-> FALSE]

InitConf == window_mode = WindowMode_default

Init ==
  /\ InitTransform
  /\ InitSampler
  /\ InitFrame
  /\ InitBackend
  /\ InitConf
  /\ panicked = FALSE
  /\ op = "new"
  /\ result = "Ok"

(* ----------------------------------------------------------------------- *)
(* Transform stack                                                         *)
(* ----------------------------------------------------------------------- *)

Returns(name, value) == op' = name /\ result' = value

\* push_transform that pushes the identity when no matrix is given.
push_transform_stack_identity(stack, transform) ==
  IF transform # None
    THEN gfx_push_transform(stack, transform)
    ELSE gfx_push_transform(stack, Identity)

\* push_transform that pushes the given matrix multiplied onto the top.
push_transform_stack_multiplied(stack, transform) ==
  IF transform # None
    THEN gfx_push_transform(stack, MatMul(transform, stack[Len(stack)]))
    ELSE gfx_push_transform(stack, stack[Len(stack)])

\* The stack after push_transform(context, transform).
push_transform_stack(stack, transform) ==
  IF transform # None
    THEN gfx_push_transform(stack, transform)
    ELSE gfx_push_transform(stack, stack[Len(stack)])

push_transform(transform) ==
  /\ ~panicked
  /\ UNCHANGED <<samplerVars, frameVars, backendVars, confVars>>
  /\ Len(modelview_stack) < MaxDepth
  /\ IF transform = None /\ modelview_stack = <<>>
       THEN \* expect("Matrix stack empty, should never happen")
            /\ panicked' = TRUE
            /\ UNCHANGED <<modelview_stack, pushed>>
       ELSE /\ modelview_stack' = push_transform_stack(modelview_stack, transform)
            /\ pushed' = IF ~pushed.tracked THEN Untracked
                         ELSE Tracked(Append(pushed.mats,
                                             IF transform = None
                                               THEN gfx_transform(modelview_stack)
                                               ELSE transform))
            /\ UNCHANGED panicked
  /\ Returns("push_transform", "Unit")
  /\ UNCHANGED <<projection, screen_rect, globals>>

\* pop_transform with the length check left out.
pop_transform_unchecked ==
  /\ ~panicked
  /\ UNCHANGED <<samplerVars, frameVars, backendVars, confVars>>
  /\ modelview_stack # <<>>
  /\ modelview_stack' = gfx_pop_transform(modelview_stack)
  /\ pushed' = IF ~pushed.tracked \/ pushed.mats = <<>> THEN pushed
               ELSE Tracked(SubSeq(pushed.mats, 1, Len(pushed.mats) - 1))
  /\ UNCHANGED panicked
  /\ Returns("pop_transform", "Unit")
  /\ UNCHANGED <<projection, screen_rect, globals>>

\* pop_transform that recalculates and uploads the MVP for the new top.
pop_transform_applied ==
  /\ ~panicked
  /\ UNCHANGED <<samplerVars, frameVars, backendVars, confVars>>
  /\ IF gfx_pop_asserts(modelview_stack)
       THEN /\ panicked' = TRUE
            /\ UNCHANGED <<modelview_stack, pushed, globals>>
       ELSE /\ modelview_stack' = gfx_pop_transform(modelview_stack)
            /\ pushed' = IF ~pushed.tracked THEN Untracked
                         ELSE Tracked(SubSeq(pushed.mats, 1, Len(pushed.mats) - 1))
            /\ globals' = calculate_transform_matrix(projection, modelview_stack')
            /\ UNCHANGED panicked
  /\ Returns("pop_transform", "Unit")
  /\ UNCHANGED <<projection, screen_rect>>

pop_transform ==
  /\ ~panicked
  /\ UNCHANGED <<samplerVars, frameVars, backendVars, confVars>>
  /\ IF gfx_pop_asserts(modelview_stack)
       THEN /\ panicked' = TRUE
            /\ UNCHANGED <<modelview_stack, pushed>>
       ELSE /\ modelview_stack' = gfx_pop_transform(modelview_stack)
            /\ pushed' = IF ~pushed.tracked THEN Untracked
                         ELSE Tracked(SubSeq(pushed.mats, 1, Len(pushed.mats) - 1))
            /\ UNCHANGED panicked
  /\ Returns("pop_transform", "Unit")
  /\ UNCHANGED <<projection, screen_rect, globals>>

set_transform(transform) ==
  /\ ~panicked
  /\ UNCHANGED <<samplerVars, frameVars, backendVars, confVars>>
  /\ modelview_stack' = gfx_set_transform(modelview_stack, transform)
  /\ pushed' = Untracked
  /\ Returns("set_transform", "Unit")
  /\ UNCHANGED <<projection, screen_rect, globals, panicked>>

\* mul_transform with the given matrix as the right factor.
mul_transform_top_right(curr, transform) == MatMul(curr, transform)

\* The top after mul_transform(context, transform).
mul_transform_top(curr, transform) == MatMul(transform, curr)

mul_transform(transform) ==
  /\ ~panicked
  /\ UNCHANGED <<samplerVars, frameVars, backendVars, confVars>>
  /\ LET curr == gfx_transform(modelview_stack)
     IN modelview_stack' =
          gfx_set_transform(modelview_stack, mul_transform_top(curr, transform))
  /\ pushed' = Untracked
  /\ Returns("mul_transform", "Unit")
  /\ UNCHANGED <<projection, screen_rect, globals, panicked>>

\* origin() that resets the bottom entry of the stack.
origin_stack_bottom(stack) == [stack EXCEPT ![1] = Identity]

\* The stack after origin(context).
origin_stack(stack) == gfx_set_transform(stack, Identity)

origin ==
  /\ ~panicked
  /\ UNCHANGED <<samplerVars, frameVars, backendVars, confVars>>
  /\ modelview_stack' = origin_stack(modelview_stack)
  /\ pushed' = Untracked
  /\ Returns("origin", "Unit")
  /\ UNCHANGED <<projection, screen_rect, globals, panicked>>

(* ----------------------------------------------------------------------- *)
(* Projection and the uploaded MVP                                         *)
(* ----------------------------------------------------------------------- *)

\* gfx.update_globals(): uploads mvp, or fails and uploads nothing.
update_globals(mvp, ok) ==
  /\ globals' = IF ok THEN mvp ELSE globals
  /\ result' = IF ok THEN "Ok" ELSE "Err"

\* apply_transformations that uploads without recalculating the MVP.
apply_transformations_stale(ok) ==
  /\ ~panicked
  /\ UNCHANGED <<samplerVars, frameVars, backendVars, confVars>>
  /\ update_globals(globals, ok)
  /\ op' = "apply_transformations"
  /\ UNCHANGED <<modelview_stack, projection, screen_rect, pushed, panicked>>

apply_transformations(ok) ==
  /\ ~panicked
  /\ UNCHANGED <<samplerVars, frameVars, backendVars, confVars>>
  /\ update_globals(calculate_transform_matrix(projection, modelview_stack), ok)
  /\ op' = "apply_transformations"
  /\ UNCHANGED <<modelview_stack, projection, screen_rect, pushed, panicked>>

\* set_screen_coordinates that calculates the MVP before it sets the
\* projection.
set_screen_coordinates_early(rect, ok) ==
  /\ ~panicked
  /\ UNCHANGED <<samplerVars, frameVars, backendVars, confVars>>
  /\ projection' = gfx_set_projection_rect(rect)
  /\ screen_rect' = rect
  /\ update_globals(calculate_transform_matrix(projection, modelview_stack), ok)
  /\ op' = "set_screen_coordinates"
  /\ UNCHANGED <<modelview_stack, pushed, panicked>>

\* set_screen_coordinates that leaves the stored screen rect as it was.
set_screen_coordinates_keeps_rect(rect, ok) ==
  /\ ~panicked
  /\ UNCHANGED <<samplerVars, frameVars, backendVars, confVars>>
  /\ projection' = gfx_set_projection_rect(rect)
  /\ screen_rect' = screen_rect
  /\ update_globals(calculate_transform_matrix(projection', modelview_stack), ok)
  /\ op' = "set_screen_coordinates"
  /\ UNCHANGED <<modelview_stack, pushed, panicked>>

\* set_screen_coordinates that sets the projection and uploads nothing.
set_screen_coordinates_unapplied(rect, ok) ==
  /\ ~panicked
  /\ UNCHANGED <<samplerVars, frameVars, backendVars, confVars>>
  /\ projection' = gfx_set_projection_rect(rect)
  /\ screen_rect' = rect
  /\ update_globals(globals, ok)
  /\ op' = "set_screen_coordinates"
  /\ UNCHANGED <<modelview_stack, pushed, panicked>>

set_screen_coordinates(rect, ok) ==
  /\ ~panicked
  /\ UNCHANGED <<samplerVars, frameVars, backendVars, confVars>>
  /\ projection' = gfx_set_projection_rect(rect)
  /\ screen_rect' = rect
  /\ update_globals(calculate_transform_matrix(projection', modelview_stack), ok)
  /\ op' = "set_screen_coordinates"
  /\ UNCHANGED <<modelview_stack, pushed, panicked>>

\* set_projection that also recalculates and uploads the MVP.
set_projection_applied(proj) ==
  /\ ~panicked
  /\ UNCHANGED <<samplerVars, frameVars, backendVars, confVars>>
  /\ projection' = proj
  /\ globals' = calculate_transform_matrix(proj, modelview_stack)
  /\ Returns("set_projection", "Unit")
  /\ UNCHANGED <<modelview_stack, screen_rect, pushed, panicked>>

set_projection(proj) ==
  /\ ~panicked
  /\ UNCHANGED <<samplerVars, frameVars, backendVars, confVars>>
  /\ projection' = proj
  /\ Returns("set_projection", "Unit")
  /\ UNCHANGED <<modelview_stack, screen_rect, globals, pushed, panicked>>

\* The projection after mul_projection(context, transform).
mul_projection_matrix(curr, transform) == MatMul(transform, curr)

mul_projection(transform) ==
  /\ ~panicked
  /\ UNCHANGED <<samplerVars, frameVars, backendVars, confVars>>
  /\ projection' = mul_projection_matrix(projection, transform)
  /\ Returns("mul_projection", "Unit")
  /\ UNCHANGED <<modelview_stack, screen_rect, globals, pushed, panicked>>

(* ----------------------------------------------------------------------- *)
(* Sampler cache                                                           *)
(* ----------------------------------------------------------------------- *)

\* factory.create_sampler(info): a sampler no one holds yet.
create_sampler(count) == count + 1

\* SamplerCache::get_or_insert that builds a sampler on every call.
get_or_insert_always(cache, info, count) ==
  [cache   |-> [i \in (DOMAIN cache) \cup {info} |->
                  IF i = info THEN create_sampler(count) ELSE cache[i]],
   count   |-> count + 1,
   sampler |-> create_sampler(count)]

\* SamplerCache::get_or_insert(info, factory): the cache, the factory's
\* sampler count and the returned handle.
get_or_insert(cache, info, count) ==
  IF info \in DOMAIN cache
    THEN [cache |-> cache, count |-> count, sampler |-> cache[info]]
    ELSE [cache   |-> [i \in (DOMAIN cache) \cup {info} |->
                         IF i = info THEN create_sampler(count) ELSE cache[i]],
          count   |-> count + 1,
          sampler |-> create_sampler(count)]

\* A caller asking the context's cache for a sampler.
sampler_lookup(info) ==
  /\ ~panicked
  /\ LET r == get_or_insert(samplers, info, sampler_count)
     IN /\ samplers' = r.cache
        /\ sampler_count' = r.count
        /\ handed_out' = [handed_out EXCEPT ![info] = @ \cup {r.sampler}]
        /\ hit' = (info \in DOMAIN samplers)
  /\ Returns("get_or_insert", "Unit")
  /\ UNCHANGED <<confVars, backendVars, transformVars, frameVars, default_sampler_info, panicked>>

\* set_default_filter that leaves the creation of the sampler to the first
\* draw that needs it.
set_default_filter_lazy(mode) ==
  /\ ~panicked
  /\ default_sampler_info' = SamplerInfo(FilterModeInto(mode), "Clamp")
  /\ Returns("set_default_filter", "Unit")
  /\ UNCHANGED <<confVars, backendVars, transformVars, frameVars, samplers, sampler_count,
                 handed_out, hit, panicked>>

set_default_filter(mode) ==
  /\ ~panicked
  /\ LET new_mode == FilterModeInto(mode)
         sampler_info == SamplerInfo(new_mode, "Clamp")
         r == get_or_insert(samplers, sampler_info, sampler_count)
     IN /\ samplers' = r.cache
        /\ sampler_count' = r.count
        /\ handed_out' = [handed_out EXCEPT ![sampler_info] = @ \cup {r.sampler}]
        /\ hit' = (sampler_info \in DOMAIN samplers)
        /\ default_sampler_info' = sampler_info
  /\ Returns("set_default_filter", "Unit")
  /\ UNCHANGED <<confVars, backendVars, transformVars, frameVars, panicked>>

(* ----------------------------------------------------------------------- *)
(* Frame                                                                   *)
(* ----------------------------------------------------------------------- *)

\* The history of a frame that began with clear and saw only successful
\* draws, one present and screenshots since; anything else ends it.
FrameAfter(call, ok, allowed) ==
  IF frame # <<>> /\ ok /\ frame[Len(frame)].f \in allowed
    THEN Append(frame, call)
    ELSE <<>>

\* clear() that hands the encoder the colour as given.
clear_color_unconverted(color) == Rgba(color)

\* The colour clear() hands the encoder.
clear_color(color) == ColorToLinear(Rgba(color))

\* clear() that always clears the screen's render target.
clear_target_screen(out) == Screen

\* The render target view clear() hands the encoder: gfx.data.out.
clear_target(out) == out

clear(color) ==
  /\ ~panicked
  /\ Len(encoder) < MaxQueue
  /\ encoder' = Append(encoder, ClearCommand(clear_target(data_out),
                                             clear_color(color), color))
  /\ frame' = <<Call("clear", color, data_out)>>
  /\ image' = NoImage
  /\ Returns("clear", "Unit")
  /\ UNCHANGED <<confVars, backendVars, transformVars, samplerVars, data_out, textures, present_log,
                 panicked>>

\* drawable.draw(ctx, params) queues the drawable on the active target, or
\* fails and queues nothing.
draw(drawable, ok) ==
  /\ ~panicked
  /\ Len(encoder) < MaxQueue
  /\ encoder' = IF ok THEN Append(encoder, DrawCommand(data_out, drawable))
                ELSE encoder
  /\ frame' = FrameAfter(Call("draw", drawable, data_out), ok, {"clear", "draw"})
  /\ image' = NoImage
  /\ Returns("draw", IF ok THEN "Ok" ELSE "Err")
  /\ UNCHANGED <<confVars, backendVars, transformVars, samplerVars, data_out, textures, present_log,
                 panicked>>

\* present() whose flush loses the command queued last.
present_flush_drops_last(tex, queue) ==
  IF queue = <<>> THEN tex ELSE Flush(tex, SubSeq(queue, 1, Len(queue) - 1))

\* The textures after present()'s encoder.flush.
present_flush(tex, queue) == Flush(tex, queue)

\* present() that leaves the active render target as it finds it.
present_out_kept(out) == out

\* The render target present() makes active: screen_render_target.
present_out(out) == Screen

\* present() that cleans the device up before it swaps the buffers.
present_steps_cleanup_first(swap_ok) ==
  <<"rebind", "flush", "cleanup", "swap">>

\* The steps of present() in statement order; a failed swap_buffers returns
\* before device.cleanup().
present_steps(swap_ok) ==
  IF swap_ok THEN <<"rebind", "flush", "swap", "cleanup">>
  ELSE <<"rebind", "flush", "swap">>

\* present() that keeps the queue for a retry when the swap fails.
present_queue_kept_on_error(queue, swap_ok) ==
  IF swap_ok THEN <<>> ELSE queue

\* The main encoder's queue after present(): encoder.flush runs before the
\* swap is attempted and empties it whatever the swap does.
present_queue(queue, swap_ok) == <<>>

present(swap_ok) ==
  /\ ~panicked
  /\ data_out' = present_out(data_out)
  /\ textures' = present_flush(textures, encoder)
  /\ encoder' = present_queue(encoder, swap_ok)
  /\ present_log' = present_steps(swap_ok)
  /\ frame' = FrameAfter(Call("present", "", data_out), swap_ok, {"clear", "draw"})
  /\ image' = NoImage
  /\ Returns("present", IF swap_ok THEN "Ok" ELSE "Err")
  /\ UNCHANGED <<confVars, backendVars, transformVars, samplerVars, panicked>>

\* What can go wrong inside screenshot(), in code order.
ScreenshotOutcomes == {"ok", "create_texture", "copy", "view"}

\* screenshot() that copies the screen whatever target is active.
screenshot_pixels_screen(tex, out) == tex[Screen]

\* The texels screenshot() copies: the active target's texture on the device.
screenshot_pixels(tex, out) == tex[out]

\* screenshot() that queues its copy on the main encoder: the flush that
\* follows the copy then submits the main queue with it.
screenshot_encoder_shared(queue, outcome) ==
  IF outcome \in {"ok", "view"} THEN <<>> ELSE queue

\* The main encoder's queue after screenshot(): the copy is queued on and
\* flushed from local_encoder, so the main queue is as it was.
screenshot_encoder(queue, outcome) == queue

\* screenshot() whose flush makes the device execute the main queue too.
screenshot_device_runs_queue(tex, queue, outcome) ==
  IF outcome \in {"ok", "view"} THEN Flush(tex, queue) ELSE tex

\* The render targets' textures after screenshot(): the flushed copy writes
\* to the freshly created target texture only.
screenshot_device(tex, queue, outcome) == tex

screenshot(outcome) ==
  /\ ~panicked
  /\ encoder' = screenshot_encoder(encoder, outcome)
  /\ textures' = screenshot_device(textures, encoder, outcome)
  /\ image' = IF outcome = "ok"
                THEN [pixels |-> screenshot_pixels(textures, data_out),
                      width |-> Width(data_out),
                      height |-> Height(data_out),
                      sampler_info |-> default_sampler_info]
                ELSE NoImage
  /\ frame' = FrameAfter(Call("screenshot", "", data_out), outcome = "ok",
                         {"clear", "draw", "present"})
  /\ Returns("screenshot", IF outcome = "ok" THEN "Ok" ELSE "Err")
  /\ UNCHANGED <<confVars, backendVars, transformVars, samplerVars, data_out, present_log, panicked>>

\* set_canvas(ctx, target): binds a canvas, or the screen again.
set_canvas(target) ==
  /\ ~panicked
  /\ data_out' = target
  /\ frame' = <<>>
  /\ image' = NoImage
  /\ Returns("set_canvas", "Unit")
  /\ UNCHANGED <<confVars, backendVars, transformVars, samplerVars, encoder, textures, present_log,
                 panicked>>

(* ----------------------------------------------------------------------- *)
(* Backend specification                                                   *)
(* ----------------------------------------------------------------------- *)

\* The variants of glutin::Api.
Apis == {"OpenGl", "OpenGlEs", "WebGl"}

\* The variants of conf::Backend.
Backends == {"OpenGL", "OpenGLES"}

\* Version numbers: u8 values, never computed with.
Versions == {2, 3, 4}

\* Every value of the type GlBackendSpec.
GlBackendSpecs == [major : Versions, minor : Versions, api : Apis]

\* <GlBackendSpec as From<conf::Backend>>::from
GlBackendSpec_from(backend, major, minor) ==
  [major |-> major, minor |-> minor,
   api |-> IF backend = "OpenGL" THEN "OpenGl" ELSE "OpenGlEs"]

backend_from(backend, major, minor) ==
  /\ ~panicked
  /\ backend_spec' = GlBackendSpec_from(backend, major, minor)
  /\ returned' = <<>>
  /\ Returns("from", "Unit")
  /\ UNCHANGED <<confVars, transformVars, samplerVars, frameVars, panicked>>

version_tuple ==
  /\ ~panicked
  /\ returned' = <<backend_spec.major, backend_spec.minor>>
  /\ Returns("version_tuple", "Unit")
  /\ UNCHANGED <<confVars, transformVars, samplerVars, frameVars, backend_spec, panicked>>

api ==
  /\ ~panicked
  /\ returned' = <<backend_spec.api>>
  /\ Returns("api", "Unit")
  /\ UNCHANGED <<confVars, transformVars, samplerVars, frameVars, backend_spec, panicked>>

\* The vertex and fragment shader sources included for an API, and no pair
\* for the APIs the match has no arm for.
shader_sources(a) ==
  CASE a = "OpenGl" -> <<"basic_150.glslv", "basic_150.glslf">>
    [] a = "OpenGlEs" -> <<"basic_es300.glslv", "basic_es300.glslf">>
    [] OTHER -> <<>>

\* shaders(&self): the catch-all arm of the match panics.
shaders ==
  /\ ~panicked
  /\ returned' = shader_sources(backend_spec.api)
  /\ panicked' = (backend_spec.api \notin {"OpenGl", "OpenGlEs"})
  /\ Returns("shaders", "Unit")
  /\ UNCHANGED <<confVars, transformVars, samplerVars, frameVars, backend_spec>>

(* ----------------------------------------------------------------------- *)
(* Window mode                                                             *)
(* ----------------------------------------------------------------------- *)

\* The variants of conf::FullscreenType.
FullscreenTypes == {"Off", "True", "Desktop"}

\* Window sizes: f32 values, never computed with.
WindowWidths == {800, 1024}

WindowHeights == {600, 768}

\* The values of conf::WindowMode, as far as these functions set them.
WindowModes ==
  [width : WindowWidths, height : WindowHeights,
   fullscreen_type : FullscreenTypes, resizable : BOOLEAN]

\* set_mode that saves the mode before it is applied to the window.
set_mode_conf_eager(stored, mode, ok) == mode

\* conf.window_mode after set_mode(context, mode): gfx.set_window_mode(mode)?
\* returns early on failure, and the mode is saved after it.
set_mode_conf(stored, mode, ok) == IF ok THEN mode ELSE stored

\* set_mode as called by `name`; ok is whether gfx.set_window_mode succeeds.
set_mode_by(name, mode, ok) ==
  /\ ~panicked
  /\ window_mode' = set_mode_conf(window_mode, mode, ok)
  /\ Returns(name, IF ok THEN "Ok" ELSE "Err")
  /\ UNCHANGED <<transformVars, samplerVars, frameVars, backendVars, panicked>>

set_mode(mode, ok) == set_mode_by("set_mode", mode, ok)

set_fullscreen(fullscreen, ok) ==
  set_mode_by("set_fullscreen",
              [window_mode EXCEPT !.fullscreen_type = fullscreen], ok)

set_resolution(width, height, ok) ==
  set_mode_by("set_resolution",
              [window_mode EXCEPT !.width = width, !.height = height], ok)

set_resizable(resizable, ok) ==
  set_mode_by("set_resizable",
              [window_mode EXCEPT !.resizable = resizable], ok)

(* ----------------------------------------------------------------------- *)
(* Specifications                                                          *)
(* ----------------------------------------------------------------------- *)

NextStack ==
  \/ \E t \in Transforms \cup {None} : push_transform(t)
  \/ pop_transform
  \/ \E t \in Transforms : set_transform(t)
  \/ \E t \in Transforms : mul_transform(t)
  \/ origin

\* Every transform and projection function; the stack is fed quarter turns
\* and the projection mirrors, which do not commute with each other.
NextTransform ==
  \/ \E t \in {Rot90, None} : push_transform(t)
  \/ pop_transform
  \/ set_transform(Rot90)
  \/ mul_transform(Rot90)
  \/ origin
  \/ \E ok \in BOOLEAN : apply_transformations(ok)
  \/ \E r \in Rects, ok \in BOOLEAN : set_screen_coordinates(r, ok)
  \/ set_projection(FlipX)
  \/ mul_projection(FlipX)

NextSampler ==
  \/ \E info \in SamplerInfos : sampler_lookup(info)
  \/ \E mode \in FilterModes : set_default_filter(mode)

\* Frames rendered to the screen.
NextFrame ==
  \/ \E c \in Colors : clear(c)
  \/ \E d \in Drawables, ok \in BOOLEAN : draw(d, ok)
  \/ \E ok \in BOOLEAN : present(ok)
  \/ \E o \in ScreenshotOutcomes : screenshot(o)

\* Frames that also redirect rendering to a canvas and back.
NextCanvas ==
  \/ \E c \in Colors : clear(c)
  \/ \E ok \in BOOLEAN : draw("A", ok)
  \/ \E ok \in BOOLEAN : present(ok)
  \/ \E o \in ScreenshotOutcomes : screenshot(o)
  \/ \E t \in Targets : set_canvas(t)

\* Screen and canvas frames on a context whose transform, projection and
\* default filter are being changed as well.
NextContext ==
  \/ clear("Red")
  \/ \E ok \in BOOLEAN : present(ok)
  \/ \E o \in ScreenshotOutcomes : screenshot(o)
  \/ \E t \in Targets : set_canvas(t)
  \/ set_transform(FlipX)
  \/ apply_transformations(TRUE)
  \/ set_projection(FlipX)
  \/ set_default_filter("Nearest")

\* Depth to which the frames of NextSubmit push.
SubmitDepth == 2

\* Screen frames interleaved with every transform and projection function.
\* The stack is fed mirrors; the projection functions are fed matrices that
\* keep the projection of the initial screen rect.
NextSubmit ==
  \/ clear("Red")
  \/ \E ok \in BOOLEAN : draw("A", ok)
  \/ \E ok \in BOOLEAN : present(ok)
  \/ \E o \in ScreenshotOutcomes : screenshot(o)
  \/ push_transform(None) /\ Len(modelview_stack) < SubmitDepth
  \/ pop_transform
  \/ set_transform(FlipX)
  \/ mul_transform(FlipX)
  \/ origin
  \/ apply_transformations(TRUE)
  \/ set_screen_coordinates(InitialRect, TRUE)
  \/ set_projection(Ortho(InitialRect))
  \/ mul_projection(Identity)

\* The projection functions and the uploads, on a stack of one entry that
\* is given quarter turns.
NextProjection ==
  \/ \E r \in Rects, ok \in BOOLEAN : set_screen_coordinates(r, ok)
  \/ set_projection(FlipX)
  \/ mul_projection(FlipX)
  \/ \E ok \in BOOLEAN : apply_transformations(ok)
  \/ set_transform(Rot90)
  \/ mul_transform(Rot90)

\* Pushes and pops, with a projection that changes and is uploaded between
\* them.
NextPushPop ==
  \/ \E t \in Transforms \cup {None} : push_transform(t)
  \/ pop_transform
  \/ set_projection(FlipX)
  \/ apply_transformations(TRUE)

\* The window mode functions.
NextMode ==
  \/ \E mode \in WindowModes, ok \in BOOLEAN : set_mode(mode, ok)
  \/ \E f \in FullscreenTypes, ok \in BOOLEAN : set_fullscreen(f, ok)
  \/ \E w \in WindowWidths, h \in WindowHeights, ok \in BOOLEAN :
       set_resolution(w, h, ok)
  \/ \E r \in BOOLEAN, ok \in BOOLEAN : set_resizable(r, ok)

\* The methods of GlBackendSpec.
NextBackend ==
  \/ \E b \in Backends, major \in Versions, minor \in Versions :
       backend_from(b, major, minor)
  \/ version_tuple
  \/ api
  \/ shaders

\* A GlBackendSpec of any API variant the type admits, with everything else
\* as on construction.
InitAnyBackend ==
  /\ InitTransform
  /\ InitSampler
  /\ InitFrame
  /\ backend_spec \in GlBackendSpecs
  /\ returned = <<>>
  /\ InitConf
  /\ panicked = FALSE
  /\ op = "new"
  /\ result = "Ok"

SpecStack == Init /\ [][NextStack]_vars

SpecTransform == Init /\ [][NextTransform]_vars

SpecSampler == Init /\ [][NextSampler]_vars

SpecFrame == Init /\ [][NextFrame]_vars

SpecCanvas == Init /\ [][NextCanvas]_vars

SpecContext == Init /\ [][NextContext]_vars

SpecSubmit == Init /\ [][NextSubmit]_vars

SpecProjection == Init /\ [][NextProjection]_vars

SpecPushPop == Init /\ [][NextPushPop]_vars

SpecMode == Init /\ [][NextMode]_vars

SpecBackend == InitAnyBackend /\ [][NextBackend]_vars

(* ----------------------------------------------------------------------- *)
(* Properties                                                              *)
(* ----------------------------------------------------------------------- *)

Top == gfx_transform(modelview_stack)

\* C1: after any sequence of push_transform, pop_transform, set_transform,
\* mul_transform and origin calls, the transform stack holds at least one
\* matrix.
C1_StackNeverEmpty == Len(modelview_stack) >= 1

\* A pop was called and a single entry is left.
C1_Witness == op = "pop_transform" /\ Len(modelview_stack) = 1

\* C2: pop on a stack holding exactly one entry returns an error, leaves
\* the stack as it was and does not terminate the process.
C2_PopSoleEntryReturnsError ==
  [][(~panicked /\ Len(modelview_stack) = 1 /\ op' = "pop_transform")
       => /\ result' = "Err"
          /\ modelview_stack' = modelview_stack
          /\ ~panicked']_vars

\* The matrices of a sequence multiplied in sequence order.
RECURSIVE ProductInPushOrder(_)
ProductInPushOrder(mats) ==
  IF mats = <<>> THEN Identity
  ELSE MatMul(Head(mats), ProductInPushOrder(Tail(mats)))

\* C3 as stated: after pushes and pops only, the top of the stack is the
\* product, in push order, of the matrices pushed and not yet popped.
C3_TopIsProductOfPushed ==
  pushed.tracked => Top = ProductInPushOrder(pushed.mats)

\* C3: after pushes and pops only, the top of the stack is the matrix pushed
\* last among those not yet popped, and the identity when none is left.
C3_TopIsLastPushed ==
  pushed.tracked =>
    Top = IF pushed.mats = <<>> THEN Identity
          ELSE pushed.mats[Len(pushed.mats)]

\* Two pushes and a pop uncovered a matrix that is not the identity.
C3_Witness ==
  /\ pushed.tracked
  /\ op = "pop_transform"
  /\ ~panicked
  /\ Len(pushed.mats) = 1
  /\ Top # Identity

\* C4: after origin() the top of the stack is the identity, whatever the
\* depth and contents of the stack were.
C4_OriginTopIsIdentity == op = "origin" => Top = Identity

\* origin() was called on a deeper stack whose lower entry is no identity.
C4_Witness ==
  /\ op = "origin"
  /\ Len(modelview_stack) >= 2
  /\ modelview_stack[Len(modelview_stack) - 1] # Identity

\* C5: right after a successful apply_transformations the uploaded MVP is
\* projection * top of stack, the projection on the left.
C5_FlushUploadsProjectionTimesTop ==
  (op = "apply_transformations" /\ result = "Ok")
    => globals = MatMul(projection, Top)

\* A successful flush whose two factors do not commute.
C5_Witness ==
  /\ op = "apply_transformations"
  /\ result = "Ok"
  /\ MatMul(projection, Top) # MatMul(Top, projection)
  /\ Top # Identity

MvpMutators == {"push_transform", "pop_transform", "set_transform",
                "mul_transform", "origin", "set_projection", "mul_projection"}

\* C6 as stated: push, pop, set, multiply, origin, set_projection_rect
\* (set_screen_coordinates), set_projection and mul_projection all leave the
\* uploaded MVP unchanged.
C6_OnlyFlushChangesMvp ==
  [][op' \in MvpMutators \cup {"set_screen_coordinates"} => globals' = globals]_vars

\* C6: push, pop, set, multiply, origin, set_projection and mul_projection
\* leave the uploaded MVP unchanged; it changes only in apply_transformations
\* and set_screen_coordinates.
C6_MutatorsKeepMvp ==
  [][/\ op' \in MvpMutators => globals' = globals
     /\ globals' # globals => op' \in {"apply_transformations", "set_screen_coordinates"}]_vars

\* A mutation has left the uploaded MVP behind projection * top.
C6_Witness ==
  /\ op \in MvpMutators
  /\ ~panicked
  /\ globals # MatMul(projection, Top)
  /\ globals # MatMul(Ortho(InitialRect), Identity)

\* The descriptors some lookup has asked for.
Requested == {info \in SamplerInfos : handed_out[info] # {}}

C7_Memoized ==
  /\ \A info \in SamplerInfos : Cardinality(handed_out[info]) <= 1
  /\ \A i, j \in SamplerInfos : i # j => handed_out[i] \cap handed_out[j] = {}
  /\ DOMAIN samplers = Requested
  /\ sampler_count = Cardinality(Requested)
  /\ \A info \in DOMAIN samplers : handed_out[info] = {samplers[info]}

C7_Retained ==
  \A info \in DOMAIN samplers :
    info \in DOMAIN samplers' /\ samplers'[info] = samplers[info]

\* C7: lookups with the same descriptor return the same sampler and lookups
\* with distinct descriptors distinct samplers; samplers created and cache
\* size both equal the number of distinct descriptors requested; a cached
\* sampler never changes or disappears.
C7_SamplerCacheMemoizes == []C7_Memoized /\ [][C7_Retained]_vars

\* A repeated lookup was served from a cache that holds several samplers.
C7_Witness ==
  /\ op = "get_or_insert"
  /\ hit
  /\ Cardinality(DOMAIN samplers) >= 2

\* C8: after present() the active render target is the screen, whatever was
\* bound before.
C8_PresentRebindsScreen == op = "present" => data_out = Screen

\* present() was called while the canvas was bound.
C8_Witness ==
  /\ op = "present"
  /\ frame # <<>>
  /\ frame[Len(frame)].f = "present"
  /\ frame[Len(frame)].target = Canvas

\* The frame was clear(c), draw(A), draw(B), present().
ClearDrawDrawPresent ==
  /\ Len(frame) = 4
  /\ frame[1].f = "clear"
  /\ frame[2].f = "draw" /\ frame[2].arg = "A"
  /\ frame[3].f = "draw" /\ frame[3].arg = "B"
  /\ frame[4].f = "present"

\* C9: after clear, draw(A), draw(B), present the device has executed the
\* clear and both draws in the order issued (B over A over the clear colour)
\* and the encoder holds nothing.
C9_FrameKeepsEveryDraw ==
  ClearDrawDrawPresent =>
    /\ encoder = <<>>
    /\ textures[Screen] = <<Ink("A"), Ink("B"), Ink("B"), Rgba(frame[1].arg)>>

C9_Witness == ClearDrawDrawPresent /\ frame[1].arg = "Gray"

\* The frame was clear(c), present(), screenshot(), all on the screen.
ClearPresentScreenshot ==
  /\ Len(frame) = 3
  /\ frame[1].f = "clear"
  /\ frame[2].f = "present"
  /\ frame[3].f = "screenshot"
  /\ \A i \in 1..3 : frame[i].target = Screen

ScreenshotWhileDrawing ==
  /\ op = "screenshot"
  /\ result = "Ok"
  /\ Len(frame) >= 2
  /\ frame[Len(frame)].f = "screenshot"
  /\ \A i \in 1..(Len(frame) - 1) : frame[i].f \in {"clear", "draw"}

\* C11: a screenshot taken after clear and draws and before present shows
\* everything rendered so far in the frame, that is the active target as it
\* is once the clear and the draws issued so far have been executed.
C11_ScreenshotShowsFrameSoFar ==
  ScreenshotWhileDrawing =>
    image.pixels = Flush(textures, encoder)[frame[Len(frame)].target]

\* The image of a screenshot is the texture of a render target.
ImageShows(target) ==
  /\ image.pixels = textures[target]
  /\ image.width = Width(target)
  /\ image.height = Height(target)

\* C12: screenshot() reads the render target that is active when it is
\* called, the canvas when one is bound and the screen otherwise; the image
\* has that target's width and height, and the binding is left as it was.
C12_ScreenshotReadsActiveTarget ==
  [][op' = "screenshot" =>
       /\ data_out' = data_out
       /\ result' = "Ok" =>
            /\ image'.pixels = textures[data_out]
            /\ image'.width = Width(data_out)
            /\ image'.height = Height(data_out)]_vars

\* A screenshot of the bound canvas, which differs from the screen in size
\* and in content.
C12_Witness ==
  /\ op = "screenshot"
  /\ result = "Ok"
  /\ data_out = Canvas
  /\ ImageShows(Canvas)
  /\ textures[Canvas] # [p \in Pixels(Canvas) |-> Blank]
  /\ \E p \in Pixels(Canvas) : textures[Canvas][p] # textures[Screen][p]

SupportedApis == {"OpenGl", "OpenGlEs"}

C14_FailedScreenshotKeepsContext ==
  [][(op' = "screenshot" /\ result' = "Err") =>
       /\ ~panicked'
       /\ data_out' = data_out
       /\ encoder' = encoder
       /\ modelview_stack' = modelview_stack
       /\ projection' = projection
       /\ samplers' = samplers]_vars

\* A screenshot failed with the canvas bound, commands queued, and a
\* transform, a projection and a sampler that are not those of a new context.
C14_Witness ==
  /\ op = "screenshot"
  /\ result = "Err"
  /\ data_out = Canvas
  /\ encoder # <<>>
  /\ Top = FlipX
  /\ projection = FlipX
  /\ DOMAIN samplers # {}

\* Where the uploaded matrix m puts the point (x, y, 0, 1): clip-space x, y.
ClipOf(m, x, y) ==
  <<m[1][1] * x + m[1][2] * y + m[1][4], m[2][1] * x + m[2][2] * y + m[2][4]>>

ClipTopLeft == <<-1, 1>>

ClipBottomRight == <<1, -1>>

Below(stack) == SubSeq(stack, 1, Len(stack) - 1)

\* C16: mul_transform(t) makes the top t * (previous top), the given matrix
\* on the left, and set_transform(m) makes the top m; both leave the depth of
\* the stack and every entry below the top as they were.
C16_MulAndSetReplaceTop ==
  [][\A t \in Transforms :
       /\ mul_transform(t) =>
            /\ Top' = MatMul(t, Top)
            /\ Len(modelview_stack') = Len(modelview_stack)
            /\ Below(modelview_stack') = Below(modelview_stack)
       /\ set_transform(t) =>
            /\ Top' = t
            /\ Len(modelview_stack') = Len(modelview_stack)
            /\ Below(modelview_stack') = Below(modelview_stack)]_vars

\* A multiplication whose factors do not commute, on a stack with a lower
\* entry that is not the identity.
C16_Witness ==
  /\ op = "mul_transform"
  /\ Len(modelview_stack) >= 2
  /\ modelview_stack[Len(modelview_stack) - 1] # Identity
  /\ Top = MatMul(FlipX, Rot90)
  /\ Top # MatMul(Rot90, FlipX)

\* C17: push_transform(Some(m)) makes the stack one deeper with m on top,
\* push_transform(None) one deeper with a copy of the previous top on top;
\* both leave every entry that was on the stack as it was.
C17_PushAddsOneEntry ==
  [][\A t \in Transforms \cup {None} :
       (push_transform(t) /\ ~panicked') =>
         /\ Len(modelview_stack') = Len(modelview_stack) + 1
         /\ Top' = (IF t = None THEN Top ELSE t)
         /\ Below(modelview_stack') = modelview_stack]_vars

\* A matrix was pushed on the identity and then a copy of it.
C17_Witness ==
  /\ op = "push_transform"
  /\ pushed.tracked
  /\ Len(modelview_stack) = 3
  /\ pushed.mats = <<modelview_stack[2], modelview_stack[3]>>
  /\ modelview_stack[3] = modelview_stack[2]
  /\ modelview_stack[2] # modelview_stack[1]

\* Every occurrence of step a in a log comes before every occurrence of b.
Precedes(log, a, b) ==
  \A i, j \in DOMAIN log : (log[i] = a /\ log[j] = b) => i < j

\* C18: a present() call flushes the main encoder, then swaps the display
\* buffers, then cleans the device up: the flush and the swap always happen
\* and in that order, and cleanup happens after a successful swap and never
\* before the swap.
C18_PresentFlushSwapCleanup ==
  op = "present" =>
    /\ \E i, j \in DOMAIN present_log :
         present_log[i] = "flush" /\ present_log[j] = "swap"
    /\ Precedes(present_log, "flush", "swap")
    /\ Precedes(present_log, "swap", "cleanup")
    /\ result = "Ok" => \E k \in DOMAIN present_log : present_log[k] = "cleanup"

\* A frame of a clear and a draw was presented and the swap succeeded.
C18_Witness ==
  /\ op = "present"
  /\ result = "Ok"
  /\ Len(frame) = 3
  /\ frame[3].f = "present"
  /\ textures[Screen] # [p \in Pixels(Screen) |-> Blank]

\* C19: present() is the only operation that submits the main encoder's
\* queue: it executes the queue on the device and leaves it empty, and every
\* other operation leaves the device's render targets as they were and the
\* commands already queued in place.
C19_OnlyPresentSubmits ==
  [][/\ op' = "present" =>
          /\ textures' = Flush(textures, encoder)
          /\ encoder' = <<>>
     /\ op' # "present" =>
          /\ textures' = textures
          /\ Len(encoder') >= Len(encoder)
          /\ SubSeq(encoder', 1, Len(encoder)) = encoder]_vars

\* A screenshot succeeded while commands that would change the screen were
\* queued, on a context whose transform has been changed and uploaded.
C19_Witness ==
  /\ op = "screenshot"
  /\ result = "Ok"
  /\ encoder # <<>>
  /\ Flush(textures, encoder)[Screen] # textures[Screen]
  /\ Top = FlipX
  /\ globals # MatMul(Ortho(InitialRect), Identity)

\* C20: clear(color) leaves the binding of the render target as it is, and
\* a clear queued while the canvas is bound clears the canvas and not the
\* screen when present() later flushes it, though present() has bound the
\* screen again by then.
C20_ClearTargetsBoundTarget ==
  [][/\ op' = "clear" => data_out' = data_out
     /\ (/\ op' = "present"
         /\ Len(frame) = 1
         /\ frame[1].f = "clear"
         /\ frame[1].target = Canvas
         /\ Len(encoder) = 1) =>
          /\ data_out' = Screen
          /\ textures'[Screen] = textures[Screen]
          /\ textures'[Canvas] = [p \in Pixels(Canvas) |-> Rgba(frame[1].arg)]]_vars

\* A clear queued with the canvas bound was presented: the canvas has the
\* colour and the screen has never been written.
C20_Witness ==
  /\ op = "present"
  /\ data_out = Screen
  /\ Len(frame) = 2
  /\ frame[1].f = "clear"
  /\ frame[1].target = Canvas
  /\ frame[2].f = "present"
  /\ textures[Canvas] = [p \in Pixels(Canvas) |-> Rgba(frame[1].arg)]
  /\ textures[Screen] = [p \in Pixels(Screen) |-> Blank]

RawProjectionSetters == {"set_projection", "mul_projection"}

C22_SetScreenCoordinatesApplies ==
  [][\A r \in Rects :
       set_screen_coordinates(r, TRUE) =>
         /\ result' = "Ok"
         /\ projection' = Ortho(r)
         /\ globals' = MatMul(Ortho(r), Top)
         /\ globals' = MatMul(projection', Top')]_vars

\* A rect was set while the uploaded MVP was behind both the stack top and
\* the projection.
C22_Witness ==
  /\ op = "set_screen_coordinates"
  /\ result = "Ok"
  /\ Top # Identity
  /\ screen_rect # InitialRect
  /\ globals = MatMul(Ortho(screen_rect), Top)
  /\ globals # MatMul(Top, Ortho(screen_rect))

\* C23: set_default_filter(mode) makes the default sampler descriptor
\* (mode's filter, clamp wrap) and leaves a sampler for it in the cache; the
\* default descriptor, once a key of the cache, stays one, and a lookup of it
\* then creates no sampler and leaves the cache as it is.
C23_DefaultFilterIsCached ==
  [][/\ \A mode \in FilterModes :
          set_default_filter(mode) =>
            /\ default_sampler_info' = SamplerInfo(FilterModeInto(mode), "Clamp")
            /\ default_sampler_info' \in DOMAIN samplers'
     /\ default_sampler_info \in DOMAIN samplers =>
          default_sampler_info' \in DOMAIN samplers'
     /\ (/\ sampler_lookup(default_sampler_info)
         /\ default_sampler_info \in DOMAIN samplers) =>
          /\ sampler_count' = sampler_count
          /\ samplers' = samplers]_vars

\* The default filter was changed and a later lookup, of the only
\* descriptor the cache holds, was served from the cache.
C23_Witness ==
  /\ op = "get_or_insert"
  /\ hit
  /\ default_sampler_info = SamplerInfo("Scale", "Clamp")
  /\ DOMAIN samplers = {default_sampler_info}
  /\ sampler_count = 1

\* C24: push_transform(Some(m)) or push_transform(None) followed at once by
\* pop_transform() leaves the whole stack as it was before the push, and
\* neither call changes the projection or the uploaded MVP. The push keeps
\* the stack it finds below the new top, and the pop that follows it
\* removes exactly that top, without terminating the process.
C24_PushThenPopRestoresStack ==
  [][/\ \A t \in Transforms \cup {None} :
          (push_transform(t) /\ ~panicked') =>
            /\ Below(modelview_stack') = modelview_stack
            /\ projection' = projection
            /\ globals' = globals
     /\ (op = "push_transform" /\ ~panicked /\ pop_transform) =>
          /\ ~panicked'
          /\ modelview_stack' = Below(modelview_stack)
          /\ projection' = projection
          /\ globals' = globals]_vars

\* A pop took off a pushed matrix while the uploaded MVP was behind the
\* projection and the stack held only pushed matrices.
C24_Witness ==
  /\ op = "pop_transform"
  /\ ~panicked
  /\ pushed.tracked
  /\ Len(modelview_stack) = 2
  /\ Top = Rot90
  /\ projection # Ortho(InitialRect)
  /\ globals # MatMul(projection, Top)

\* C25: a present() whose buffer swap fails returns the error and does not
\* run the device cleanup, yet the screen has been bound again and the main
\* encoder's queue has been executed on the device and emptied.
C25_FailedPresentKeepsEarlierSteps ==
  [][(op' = "present" /\ result' = "Err") =>
       /\ ~panicked'
       /\ \A k \in DOMAIN present_log' : present_log'[k] # "cleanup"
       /\ data_out' = Screen
       /\ encoder' = <<>>
       /\ textures' = Flush(textures, encoder)]_vars

\* A present() failed after it had flushed a clear of the canvas.
C25_Witness ==
  /\ op = "present"
  /\ result = "Err"
  /\ data_out = Screen
  /\ encoder = <<>>
  /\ present_log = <<"rebind", "flush", "swap">>
  /\ textures[Canvas] # [p \in Pixels(Canvas) |-> Blank]
  /\ textures[Screen] = [p \in Pixels(Screen) |-> Blank]

\* C26: set_mode(mode) stores mode in the configuration when applying it to
\* the window succeeds, and returns the error with the stored mode unchanged
\* when it fails. set_fullscreen, set_resolution and set_resizable store
\* their argument in their own field(s) on success and never change another
\* field of the stored mode.
C26_ModePersistsOnSuccess ==
  [][/\ \A mode \in WindowModes, ok \in BOOLEAN :
          set_mode(mode, ok) =>
            /\ result' = (IF ok THEN "Ok" ELSE "Err")
            /\ window_mode' = (IF ok THEN mode ELSE window_mode)
     /\ (/\ op' \in {"set_mode", "set_fullscreen", "set_resolution", "set_resizable"}
         /\ result' = "Err") => window_mode' = window_mode
     /\ op' = "set_fullscreen" =>
          /\ window_mode'.width = window_mode.width
          /\ window_mode'.height = window_mode.height
          /\ window_mode'.resizable = window_mode.resizable
     /\ op' = "set_resolution" =>
          /\ window_mode'.fullscreen_type = window_mode.fullscreen_type
          /\ window_mode'.resizable = window_mode.resizable
     /\ op' = "set_resizable" =>
          /\ window_mode'.width = window_mode.width
          /\ window_mode'.height = window_mode.height
          /\ window_mode'.fullscreen_type = window_mode.fullscreen_type
     /\ \A f \in FullscreenTypes :
          set_fullscreen(f, TRUE) => window_mode'.fullscreen_type = f
     /\ \A w \in WindowWidths, h \in WindowHeights :
          set_resolution(w, h, TRUE) =>
            window_mode'.width = w /\ window_mode'.height = h
     /\ \A r \in BOOLEAN :
          set_resizable(r, TRUE) => window_mode'.resizable = r]_vars

\* A mode change failed on a stored mode all of whose fields had been
\* changed before.
C26_Witness ==
  /\ op \in {"set_mode", "set_fullscreen", "set_resolution", "set_resizable"}
  /\ result = "Err"
  /\ window_mode.width # WindowMode_default.width
  /\ window_mode.height # WindowMode_default.height
  /\ window_mode.fullscreen_type # WindowMode_default.fullscreen_type
  /\ window_mode.resizable # WindowMode_default.resizable

====
